---- MODULE Spec2Model ----
(***************************************************************************)
(* The per-client rate limiter of products-api (package ratelimiter):      *)
(* New, Allow, NumberOfClients and the two ticker-driven maintenance       *)
(* goroutines (limit reset, client cleanup), with the goroutines of the    *)
(* callers, the RWMutex, the clock, the two tickers and the context's      *)
(* cancellation as explicit state.                                         *)
(*                                                                         *)
(* Time is counted in whole seconds.  A ticker is a channel of capacity    *)
(* one: a tick that falls due while the previous one has not been received *)
(* is dropped.  Goroutines interleave freely; a select with several ready  *)
(* cases takes any of them.                                                *)
(*                                                                         *)
(* Beside the limiter: api.NewRateLimiter with the NoopLimiter, and the    *)
(* InMemoryDB (CreateProduct, UpdateProduct, DeleteProduct,                *)
(* GetProductByID) with its mutex and the goroutines calling it.           *)
(*                                                                         *)
(* Spec      the limiter made by New, its callers, the clock, the loops    *)
(* SpecLive  the same under fair scheduling, for the liveness properties   *)
(* SpecApi   the limiter made by api.NewRateLimiter                        *)
(* SpecAddr  requests from remote addresses of every shape                 *)
(* SpecBurst one client's requests, the admissions of each second counted  *)
(* SpecDb    the InMemoryDB                                                *)
(***************************************************************************)
EXTENDS FiniteSets, Integers, Sequences, TLC

\* ---------------------------------------------------------------- bounds
MaxTime == 4            \* the clock runs from 0 to MaxTime
MaxLiveTime == 2        \* the clock's last second in the runs checked for liveness
MaxCount == 3           \* no Allow is started for a client counted this far
MaxNoopCalls == 3       \* the NoopLimiter is asked this many times
MaxCreated == 2         \* no CreateProduct is started after this many, the samples aside

\* ------------------------------------------------------------- constants
Second == 1             \* time.Second, the unit of the model's clock

\* the request-handling goroutines
Callers == {"h1", "h2"}

\* configurations offered to New, valid and invalid: each rule of the
\* validation is violated by some, alone and together with the others
Limits == {-1, 0, 1}
LimitIntervals == {0, Second}
ClientTimeouts == {0, Second, 2 * Second}
Configs == [Limit : Limits, LimitInterval : LimitIntervals, ClientTimeout : ClientTimeouts]

\* remote addresses of the requests, as sequences of characters
RemoteAddrs == { <<"t">>, <<"a", ":", "1">> }

\* the workloads of a run: which goroutines send requests, from which
\* addresses, until which second (two goroutines of one client are followed
\* to the last second, one goroutine of two clients to the second before),
\* and whether the history counts the admissions of each second
Workloads ==
    { [callers |-> {"h1", "h2"}, addrs |-> {<<"t">>},  until |-> MaxTime,     track |-> FALSE],
      [callers |-> {"h1"},       addrs |-> RemoteAddrs, until |-> MaxTime - 1, track |-> FALSE] }

\* the workload of the runs checked for liveness: two goroutines send requests
LiveWorkloads ==
    { [callers |-> {"h1", "h2"}, addrs |-> {<<"t">>}, until |-> MaxLiveTime, track |-> FALSE] }

\* the workload of the runs checked for bursts: one goroutine sends the
\* requests of one client
BurstWorkloads ==
    { [callers |-> {"h1"}, addrs |-> {<<"t">>}, until |-> MaxTime, track |-> TRUE] }

\* remote addresses of every shape: without a port, with a colon and no
\* digits, with a port of 1, 5 and 6 digits, with two ports of one address,
\* with a colon in the address part, with an empty address part, with a
\* line break in the address part
AddrSamples ==
    { <<>>, <<"t">>, <<"a", ":">>,
      <<"a", ":", "1">>, <<"a", ":", "2">>,
      <<"a", ":", "1", "2", "3", "4", "5">>,
      <<"a", ":", "1", "2", "3", "4", "5", "6">>,
      <<"a", ":", "1", ":", "1">>,
      <<":", "1">>,
      <<"\n", ":", "1">> }

\* one goroutine sends requests from all of them
AddrWorkloads == { [callers |-> {"h1"}, addrs |-> AddrSamples, until |-> 0, track |-> FALSE] }

Digits == {"0", "1", "2", "3", "4", "5", "6", "7", "8", "9"}

\* ------------------------------------------------------- client identity

\* [0-9]{1,5}$
IsPort(s) == Len(s) \in 1..5 /\ \A i \in 1..Len(s) : s[i] \in Digits

\* the positions of a ':' that the pattern ^(.*):[0-9]{1,5}$ can match at
\* ('.' does not match a newline)
ColonAt(addr) ==
    {k \in 1..Len(addr) : /\ addr[k] = ":"
                          /\ IsPort(SubSeq(addr, k + 1, Len(addr)))
                          /\ \A i \in 1..(k - 1) : addr[i] # "\n"}

patIPMatch(addr) == ColonAt(addr) # {}

\* submatch 0, the whole match, for submatch 1
patIPSubmatchWhole(addr) == addr

\* submatch 1 of the greedy match
patIPSubmatch(addr) ==
    LET k == CHOOSE k \in ColonAt(addr) : \A j \in ColonAt(addr) : j <= k
    IN  SubSeq(addr, 1, k - 1)

\* ClientID keeping the whole address of a request that does not match
ClientIDWhole(addr) == IF patIPMatch(addr) THEN patIPSubmatch(addr) ELSE addr

\* the id Allow counts a request under
ClientID(addr) == IF patIPMatch(addr) THEN patIPSubmatch(addr) ELSE <<>>

ClientIDs == {ClientID(a) : a \in RemoteAddrs \cup AddrSamples}

\* ----------------------------------------------------------------- state
VARIABLES
    built,      \* New has returned a limiter
    err,        \* the error of the last New, or "nil"
    limit,      \* rl.limit
    activity,   \* rl.activity: client id -> ClientActivity
    writers,    \* goroutines holding rl's lock exclusively
    readers,    \* goroutines holding rl's lock shared
    now,        \* the clock
    cancelled,  \* ctx.Done() is closed
    ticker,     \* the two tickers: dur, next due time, channel C, stopped
    loop,       \* the two goroutines: pc and the tick time received
    call,       \* the callers' goroutines: pc, request, locals
    load,       \* the workload of the run
    hist,       \* history of the run, for the properties only
    api,        \* api.NewRateLimiter: its argument, the limiter and error it returned
    db          \* the InMemoryDB and the goroutines calling it

vars == <<built, err, limit, activity, writers, readers, now, cancelled,
          ticker, loop, call, load, hist, api, db>>

\* the variables of the rate limiter and of api.NewRateLimiter
rlVars == <<built, err, limit, activity, writers, readers, now, cancelled,
            ticker, loop, call, load, hist, api>>

Loops == {"reset", "cleanup"}

ClientActivity(count, seen) == [requestCount |-> count, lastSeen |-> seen]

NoActivity == [c \in {} |-> ClientActivity(0, 0)]

\* a goroutine that is inside no call; n is the value NumberOfClients is
\* about to return
IdleCall == [pc |-> "idle", rq |-> <<>>, id |-> <<>>, activity |-> ClientActivity(0, 0), n |-> 0]

InitHist ==
    [calls     |-> [c \in ClientIDs |-> 0],     \* Allow calls since c's count was last zeroed or c evicted
     admitted  |-> [c \in ClientIDs |-> 0],     \* Allow calls returning true since the last reset pass
     admittedE |-> [c \in ClientIDs |-> 0],     \* the same, since the last reset pass or eviction of c
     denied    |-> [c \in ClientIDs |-> FALSE], \* an Allow returned false since the last reset pass
     deniedE   |-> [c \in ClientIDs |-> FALSE], \* the same, since the last reset pass or eviction of c
     lastRet   |-> [c \in ClientIDs |-> "none"],\* result of c's most recent Allow
     lastAllow |-> [c \in ClientIDs |-> -1],    \* clock time of c's most recent Allow, -1 before the first
     raced     |-> [c \in ClientIDs |-> FALSE], \* two Allow calls counted in calls[c] overlapped
     mix       |-> [c \in ClientIDs |-> {}],    \* the addresses of the calls counted in calls[c]
     due       |-> [p \in Callers |-> FALSE],   \* p's latest Allow was the first call for its client
                                                \* after a denial, made exactly one LimitInterval later
     span      |-> [c \in ClientIDs |-> 0],     \* in a run that tracks bursts: Allow calls returning true
                                                \* since the clock last advanced
     cuts      |-> [c \in ClientIDs |-> 0],     \* and the reset passes over c's record and evictions of
                                                \* it since then
     ticked    |-> -1,                          \* time of the most recent tick of the cleanup ticker
     cleaned   |-> -1,                          \* tick time of the most recent completed cleanup pass
     cfg       |-> <<>>]                        \* the configuration last given to New, if any

\* NewRateLimiter has not been called
InitApi == [limiter |-> "none", err |-> "nil", limit |-> <<>>, calls |-> 0, rets |-> {}]

\* the goroutines calling the InMemoryDB
DbCallers == {"g1", "g2"}

\* the ids they ask for: a sample product, a product created later, one never stored
DbIds == {1, 6, 999}

\* an error value: the package variable that holds it ("" for a value made
\* on the spot by errors.New) and its text
NilError == [var |-> "nil", text |-> ""]

\* a goroutine that is not inside a call of the InMemoryDB; op, id, product
\* and err are those of its last call
IdleDbCall == [pc |-> "idle", op |-> "", id |-> 0, req |-> <<>>, product |-> <<>>,
               err |-> NilError]

\* db := &InMemoryDB{products: make(map[int]*models.Product), nextID: 1};
\* issued is the history of the ids CreateProduct has given out
EmptyStore == [products |-> [i \in {} |-> <<>>], nextID |-> 1, issued |-> <<>>]

InitDB == [made |-> FALSE, store |-> EmptyStore, writers |-> {}, readers |-> {},
           call |-> [g \in DbCallers |-> IdleDbCall],
           deleted |-> {}]

\* c's most recent Allow returned false / true
LastDenied(c) == hist.lastRet[c] = "false"
LastAdmitted(c) == hist.lastRet[c] = "true"

\* the state before New, with a workload of W
Start(W) ==
    /\ built = FALSE
    /\ err = "nil"
    /\ limit = 0
    /\ activity = NoActivity
    /\ writers = {}
    /\ readers = {}
    /\ now = 0
    /\ cancelled = FALSE
    /\ ticker = [l \in Loops |-> [dur |-> 0, next |-> 0, C |-> <<>>, stopped |-> TRUE]]
    /\ loop = [l \in Loops |-> [pc |-> "none", now |-> 0]]
    /\ call = [p \in Callers |-> IdleCall]
    /\ load \in W
    /\ hist = InitHist
    /\ api = InitApi
    /\ db = InitDB

Init == Start(Workloads)

\* ------------------------------------------------------------------- New

ErrInvalidLimit == "rate limit must be greater than zero"
ErrInvalidLimitInterval == "limit interval must be at least one second"
ErrInvalidClientTimeout == "client timeout must be greater than limit interval"

\* Validate with the interval checked before the limit
ValidateIntervalFirst(cfg) ==
    IF cfg.LimitInterval < Second THEN ErrInvalidLimitInterval
    ELSE IF cfg.Limit <= 0 THEN ErrInvalidLimit
    ELSE IF cfg.ClientTimeout <= cfg.LimitInterval THEN ErrInvalidClientTimeout
    ELSE "nil"

\* the validation of New: the error of the first rule violated
Validate(cfg) ==
    IF cfg.Limit <= 0 THEN ErrInvalidLimit
    ELSE IF cfg.LimitInterval < Second THEN ErrInvalidLimitInterval
    ELSE IF cfg.ClientTimeout <= cfg.LimitInterval THEN ErrInvalidClientTimeout
    ELSE "nil"

\* NewTicker making a ticker that is stopped
NewTickerStopped(dur) == [dur |-> dur, next |-> now + dur, C |-> <<>>, stopped |-> TRUE]

\* rl.time.NewTicker(dur): first tick one dur from now
NewTicker(dur) == [dur |-> dur, next |-> now + dur, C |-> <<>>, stopped |-> FALSE]

\* NewLimiter starting the two loops before the validation
NewLimiterLoopsFirst(cfg) ==
    /\ ~built
    /\ err' = Validate(cfg)
    /\ built' = (Validate(cfg) = "nil")
    /\ limit' = IF Validate(cfg) = "nil" THEN cfg.Limit ELSE limit
    /\ activity' = NoActivity
    /\ ticker' = [l \in Loops |->
                    NewTicker(IF l = "reset" THEN cfg.LimitInterval
                                             ELSE cfg.ClientTimeout)]
    /\ loop' = [l \in Loops |-> [pc |-> "select", now |-> 0]]
    /\ hist' = [hist EXCEPT !.cfg = <<cfg>>]
    /\ UNCHANGED <<writers, readers, now, cancelled, call, load, db>>

\* the body of New: validation, the limiter, the two loops
NewLimiter(cfg) ==
    /\ ~built
    /\ err' = Validate(cfg)
    /\ IF Validate(cfg) = "nil"
       THEN /\ built' = TRUE
            /\ limit' = cfg.Limit
            /\ activity' = NoActivity
            /\ ticker' = [l \in Loops |->
                            NewTicker(IF l = "reset" THEN cfg.LimitInterval
                                                     ELSE cfg.ClientTimeout)]
            /\ loop' = [l \in Loops |-> [pc |-> "select", now |-> 0]]
       ELSE UNCHANGED <<built, limit, activity, ticker, loop>>
    /\ hist' = [hist EXCEPT !.cfg = <<cfg>>]
    /\ UNCHANGED <<writers, readers, now, cancelled, call, load, db>>

\* ratelimiter.New(ctx, cfg), called directly
New(cfg) ==
    /\ NewLimiter(cfg)
    /\ UNCHANGED api

\* ------------------------------------------- api.NewRateLimiter, NoopLimiter

Minute == 60 * Second   \* time.Minute

\* the limits given to NewRateLimiter
ApiLimits == {-1, 0, 1, 2}

\* UseNoop with < for <=
UseNoopNegative(n) == n < 0

\* if limit <= 0: the NoopLimiter is returned
UseNoop(n) == n <= 0

\* cfg := ratelimiter.Config{...}
ApiConfig(n) == [Limit |-> n, LimitInterval |-> Second, ClientTimeout |-> Minute]

\* api.NewRateLimiter(ctx, limit)
NewRateLimiter(n) ==
    /\ api.limiter = "none"
    /\ ~built
    /\ IF UseNoop(n)
       THEN /\ api' = [api EXCEPT !.limiter = "noop", !.err = "nil", !.limit = <<n>>]
            /\ UNCHANGED <<built, err, limit, activity, writers, readers, now, cancelled,
                           ticker, loop, call, load, hist, db>>
       ELSE /\ NewLimiter(ApiConfig(n))
            /\ api' = [api EXCEPT
                         !.limiter = IF Validate(ApiConfig(n)) = "nil" THEN "real" ELSE "nil",
                         !.err = Validate(ApiConfig(n)),
                         !.limit = <<n>>]

\* a NoopLimiter that admits only the requests whose address resolves
NoopLimiterAllowResolved(rq) == patIPMatch(rq)

\* NoopLimiter.Allow(rq)
NoopLimiterAllow(rq) == TRUE

\* a request is put to the NoopLimiter
NoopAllow(p, addr) ==
    /\ api.limiter = "noop"
    /\ call[p].pc = "idle"
    /\ api.calls < MaxNoopCalls
    /\ api' = [api EXCEPT !.calls = @ + 1, !.rets = @ \cup {NoopLimiterAllow(addr)}]
    /\ UNCHANGED <<built, err, limit, activity, writers, readers, now, cancelled,
                   ticker, loop, call, load, hist, db>>

\* ------------------------------------------------------------ the RWMutex

\* a lock that excludes nobody
CanLockAlways == TRUE

\* a lock that the callers' goroutines respect among themselves only
CanLockAmongCallers == writers \cap Callers = {} /\ readers = {}

\* rl.Lock() can return
CanLock == writers = {} /\ readers = {}

\* a goroutine is inside rl.Lock()
LockPending == (\E p \in Callers : call[p].pc = "Lock") \/ (\E l \in Loops : loop[l].pc = "Lock")

\* rl.RLock() can return: no writer holds the lock and none waits for it
CanRLock == writers = {} /\ ~LockPending

\* ----------------------------------------------------------------- Allow

\* a request arrives: Allow is called and waits for the lock
AllowCall(p, addr) ==
    /\ built
    /\ call[p].pc = "idle"
    /\ LET id == ClientID(addr)
       IN  id \in DOMAIN activity => activity[id].requestCount < MaxCount
    /\ call' = [call EXCEPT ![p] = [IdleCall EXCEPT !.pc = "Lock", !.rq = addr]]
    /\ hist' = [hist EXCEPT !.due[p] = LET id == ClientID(addr)
                                        IN  /\ LastDenied(id)
                                            /\ now = hist.lastAllow[id] + ticker["reset"].dur]
    /\ UNCHANGED <<built, err, limit, activity, writers, readers, now, cancelled,
                   ticker, loop, load, api, db>>

\* AllowLock reading the record with the highest count of the store, not
\* the record of the request's client
AllowLockBusiest(p) ==
    /\ call[p].pc = "Lock"
    /\ CanLock
    /\ writers' = writers \cup {p}
    /\ LET id == ClientID(call[p].rq)
           busiest == CHOOSE c \in DOMAIN activity :
                         \A e \in DOMAIN activity :
                             activity[e].requestCount <= activity[c].requestCount
       IN  call' = [call EXCEPT ![p].pc = "locked",
                                ![p].id = id,
                                ![p].activity = IF DOMAIN activity # {}
                                                THEN activity[busiest]
                                                ELSE ClientActivity(0, 0)]
    /\ UNCHANGED <<built, err, limit, activity, readers, now, cancelled,
                   ticker, loop, load, hist, api, db>>

\* rl.Lock(); the id of the request; activity, exists := rl.activity[id]
AllowLock(p) ==
    /\ call[p].pc = "Lock"
    /\ CanLock
    /\ writers' = writers \cup {p}
    /\ LET id == ClientID(call[p].rq)
       IN  call' = [call EXCEPT ![p].pc = "locked",
                                ![p].id = id,
                                ![p].activity = IF id \in DOMAIN activity
                                                THEN activity[id]
                                                ELSE ClientActivity(0, 0)]
    /\ UNCHANGED <<built, err, limit, activity, readers, now, cancelled,
                   ticker, loop, load, hist, api, db>>

\* Counted, counting only the calls that are admitted
CountedIfAdmitted(a) ==
    ClientActivity(IF a.requestCount < limit THEN a.requestCount + 1 ELSE a.requestCount, now)

\* Counted, stamping lastSeen only when the record is created
CountedSeenOnce(a) == ClientActivity(a.requestCount + 1, a.lastSeen)

\* Counted, stamping lastSeen only on the calls that are admitted
CountedSeenIfAdmitted(a) ==
    ClientActivity(a.requestCount + 1, IF a.requestCount + 1 <= limit THEN now ELSE a.lastSeen)

\* the record Allow writes back
Counted(a) == ClientActivity(a.requestCount + 1, now)

\* Admit with < for <=
AdmitStrict(a) == a.requestCount < limit

\* Admit with twice the limit
AdmitTwice(a) == a.requestCount <= 2 * limit

\* Admit with the limit off by one
AdmitOneMore(a) == a.requestCount <= limit + 1

\* Admit letting every request pass once the scope is cancelled
AdmitOpenWhenCancelled(a) == cancelled \/ a.requestCount <= limit

\* the result of Allow
Admit(a) == a.requestCount <= limit

\* AllowReturn without the deferred rl.Unlock()
AllowReturnNoUnlock(p) ==
    /\ call[p].pc = "locked"
    /\ LET id == call[p].id
           a  == Counted(call[p].activity)
       IN  activity' = [c \in DOMAIN activity \cup {id} |->
                          IF c = id THEN a ELSE activity[c]]
    /\ call' = [call EXCEPT ![p] = IdleCall]
    /\ UNCHANGED <<built, err, limit, writers, readers, now, cancelled, ticker,
                   loop, load, hist, api, db>>

\* requestCount += 1; lastSeen = Now(); rl.activity[id] = activity;
\* return requestCount <= rl.limit; rl.Unlock()
AllowReturn(p) ==
    /\ call[p].pc = "locked"
    /\ LET id == call[p].id
           a  == Counted(call[p].activity)
           r  == Admit(a)
       IN  /\ activity' = [c \in DOMAIN activity \cup {id} |->
                             IF c = id THEN a ELSE activity[c]]
           /\ call' = [call EXCEPT ![p] = IdleCall]
           /\ hist' = [hist EXCEPT
                         !.calls[id] = @ + 1,
                         !.mix[id] = @ \cup {call[p].rq},
                         !.admitted[id] = IF r THEN @ + 1 ELSE @,
                         !.admittedE[id] = IF r THEN @ + 1 ELSE @,
                         !.denied[id] = @ \/ ~r,
                         !.deniedE[id] = @ \/ ~r,
                         !.lastRet[id] = IF r THEN "true" ELSE "false",
                         !.lastAllow[id] = now,
                         !.span[id] = IF load.track /\ r THEN @ + 1 ELSE @,
                         !.due = [q \in Callers |->
                                    IF q # p /\ call[q].pc # "idle" /\ ClientID(call[q].rq) = id
                                    THEN FALSE ELSE @[q]],
                         !.raced[id] = @ \/ \E q \in Callers \ {p} :
                                              /\ call[q].pc \in {"Lock", "locked"}
                                              /\ ClientID(call[q].rq) = id]
    /\ writers' = writers \ {p}
    /\ UNCHANGED <<built, err, limit, readers, now, cancelled, ticker, loop, load, api, db>>

\* ------------------------------------------------------- NumberOfClients

\* NumberOfClients counting the clients with a request in the current interval
NumberOfClientsCounted == Cardinality({c \in DOMAIN activity : activity[c].requestCount > 0})

\* len(rl.activity)
NumberOfClients == Cardinality(DOMAIN activity)

\* NumberOfClients is called and waits for the shared lock
NumberOfClientsCall(p) ==
    /\ built
    /\ call[p].pc = "idle"
    /\ call' = [call EXCEPT ![p] = [IdleCall EXCEPT !.pc = "RLock"]]
    /\ UNCHANGED <<built, err, limit, activity, writers, readers, now, cancelled,
                   ticker, loop, load, hist, api, db>>

\* rl.RLock(); the value of len(rl.activity), which no writer can change
\* before the RUnlock
NumberOfClientsRLock(p) ==
    /\ call[p].pc = "RLock"
    /\ CanRLock
    /\ readers' = readers \cup {p}
    /\ call' = [call EXCEPT ![p].pc = "rlocked", ![p].n = NumberOfClients]
    /\ UNCHANGED <<built, err, limit, activity, writers, now, cancelled,
                   ticker, loop, load, hist, api, db>>

\* rl.RUnlock(); the value is returned
NumberOfClientsReturn(p) ==
    /\ call[p].pc = "rlocked"
    /\ call' = [call EXCEPT ![p] = IdleCall]
    /\ readers' = readers \ {p}
    /\ UNCHANGED <<built, err, limit, activity, writers, now, cancelled,
                   ticker, loop, load, hist, api, db>>

\* ------------------------------------------------------------- the clock

\* the ticker of loop l ticks at time
Due(l, time) == ~ticker[l].stopped /\ ticker[l].next = time

\* a ticker whose time has come sends the time on C, unless C is full;
\* the reset loop throws the time away on receipt, so its ticks carry none
Fire(l, time) ==
    LET t == ticker[l]
    IN  IF Due(l, time)
        THEN [t EXCEPT !.next = time + t.dur,
                       !.C = IF t.C # <<>> THEN t.C
                             ELSE IF l = "cleanup" THEN <<time>> ELSE <<0>>]
        ELSE t

\* one second passes
Tick ==
    /\ built
    /\ now < load.until
    /\ now' = now + 1
    /\ ticker' = [l \in Loops |-> Fire(l, now + 1)]
    /\ hist' = [hist EXCEPT !.ticked = IF Due("cleanup", now + 1) THEN now + 1 ELSE @,
                             !.span = [c \in ClientIDs |-> 0],
                             !.cuts = [c \in ClientIDs |-> 0]]
    /\ UNCHANGED <<built, err, limit, activity, writers, readers, cancelled,
                   loop, call, load, api, db>>

\* the lifetime scope given to New is cancelled
Cancel ==
    /\ built
    /\ ~cancelled
    /\ cancelled' = TRUE
    /\ UNCHANGED <<built, err, limit, activity, writers, readers, now,
                   ticker, loop, call, load, hist, api, db>>

\* ------------------------------------------------- the maintenance loops

\* a select without the ctx.Done() case
DoneNever == FALSE

\* case <-ctx.Done() of the select is ready
DoneReady == cancelled

\* LoopExit stopping the ticker without returning from the loop
LoopExitStopOnly(l) ==
    /\ loop[l].pc = "select"
    /\ DoneReady
    /\ ~ticker[l].stopped
    /\ ticker' = [ticker EXCEPT ![l].stopped = TRUE]
    /\ UNCHANGED <<built, err, limit, activity, writers, readers, now, cancelled,
                   loop, call, load, hist, api, db>>

\* case <-ctx.Done(): return, and the deferred ticker.Stop()
LoopExit(l) ==
    /\ loop[l].pc = "select"
    /\ DoneReady
    /\ loop' = [loop EXCEPT ![l].pc = "exited"]
    /\ ticker' = [ticker EXCEPT ![l].stopped = TRUE]
    /\ UNCHANGED <<built, err, limit, activity, writers, readers, now, cancelled,
                   call, load, hist, api, db>>

\* case now := <-ticker.C
LoopRecv(l) ==
    /\ loop[l].pc = "select"
    /\ ticker[l].C # <<>>
    /\ loop' = [loop EXCEPT ![l].pc = "Lock", ![l].now = Head(ticker[l].C)]
    /\ ticker' = [ticker EXCEPT ![l].C = <<>>]
    /\ UNCHANGED <<built, err, limit, activity, writers, readers, now, cancelled,
                   call, load, hist, api, db>>

\* rl.Lock()
LoopLock(l) ==
    /\ loop[l].pc = "Lock"
    /\ CanLock
    /\ writers' = writers \cup {l}
    /\ loop' = [loop EXCEPT ![l].pc = "locked"]
    /\ UNCHANGED <<built, err, limit, activity, readers, now, cancelled,
                   ticker, call, load, hist, api, db>>

\* ResetAll zeroing the loop's copy of each record without writing it back
ResetAllNoWriteBack(act) == act

\* ResetAll storing a new zero record for each client
ResetAllFresh(act) == [c \in DOMAIN act |-> ClientActivity(0, 0)]

\* ResetAll zeroing only the counts that have passed the limit
ResetAllOverLimit(act) ==
    [c \in DOMAIN act |-> IF act[c].requestCount > limit
                          THEN [act[c] EXCEPT !.requestCount = 0] ELSE act[c]]

\* the store after a reset pass: every requestCount 0
ResetAll(act) == [c \in DOMAIN act |-> [act[c] EXCEPT !.requestCount = 0]]

\* Expired with the operands of Sub exchanged
ExpiredSwapped(act, tickTime, dur) == {c \in DOMAIN act : act[c].lastSeen - tickTime >= dur}

\* Expired with > for >=
ExpiredStrict(act, tickTime, dur) == {c \in DOMAIN act : tickTime - act[c].lastSeen > dur}

\* Expired sparing the records with requests counted
ExpiredIdle(act, tickTime, dur) ==
    {c \in DOMAIN act : tickTime - act[c].lastSeen >= dur /\ act[c].requestCount = 0}

\* the clients a cleanup pass for a tick at tickTime deletes
Expired(act, tickTime, dur) == {c \in DOMAIN act : tickTime - act[c].lastSeen >= dur}

\* Cleanup zeroing the count of the records it keeps
CleanupZeroing(act, tickTime, dur) ==
    [c \in DOMAIN act \ Expired(act, tickTime, dur) |-> [act[c] EXCEPT !.requestCount = 0]]

\* the store after a cleanup pass
Cleanup(act, tickTime, dur) ==
    [c \in DOMAIN act \ Expired(act, tickTime, dur) |-> act[c]]

ZeroOn(f, S, z) == [c \in DOMAIN f |-> IF c \in S THEN z ELSE f[c]]

Bump(f, S) == [c \in DOMAIN f |-> IF c \in S THEN f[c] + 1 ELSE f[c]]

\* the reset pass and rl.Unlock()
ResetPass ==
    /\ loop["reset"].pc = "locked"
    /\ activity' = ResetAll(activity)
    /\ writers' = writers \ {"reset"}
    /\ loop' = [loop EXCEPT !["reset"].pc = "select"]
    /\ hist' = [hist EXCEPT
                  !.calls = ZeroOn(@, DOMAIN activity, 0),
                  !.mix = ZeroOn(@, DOMAIN activity, {}),
                  !.admitted = [c \in ClientIDs |-> 0],
                  !.admittedE = [c \in ClientIDs |-> 0],
                  !.denied = [c \in ClientIDs |-> FALSE],
                  !.deniedE = [c \in ClientIDs |-> FALSE],
                  !.raced = [c \in ClientIDs |-> FALSE],
                  !.cuts = Bump(@, IF load.track THEN DOMAIN activity ELSE {})]
    /\ UNCHANGED <<built, err, limit, readers, now, cancelled, ticker, call, load, api, db>>

\* the cleanup pass and rl.Unlock()
CleanupPass ==
    /\ loop["cleanup"].pc = "locked"
    /\ LET gone == Expired(activity, loop["cleanup"].now, ticker["cleanup"].dur)
       IN  /\ activity' = Cleanup(activity, loop["cleanup"].now, ticker["cleanup"].dur)
           /\ hist' = [hist EXCEPT
                         !.calls = ZeroOn(@, gone, 0),
                         !.mix = ZeroOn(@, gone, {}),
                         !.admittedE = ZeroOn(@, gone, 0),
                         !.deniedE = ZeroOn(@, gone, FALSE),
                         !.lastRet = ZeroOn(@, gone, "none"),
                         !.raced = ZeroOn(@, gone, FALSE),
                         !.cuts = Bump(@, IF load.track THEN gone ELSE {}),
                         !.cleaned = loop["cleanup"].now]
    /\ writers' = writers \ {"cleanup"}
    /\ loop' = [loop EXCEPT !["cleanup"].pc = "select"]
    /\ UNCHANGED <<built, err, limit, readers, now, cancelled, ticker, call, load, api, db>>

\* ------------------------------------------------------------ InMemoryDB

\* the fields of a product that the model follows: ID, Name, InStock
\* (Description, Price and Category are copied and updated as Name is)
sampleProducts ==
    << [Name |-> "Laptop",         InStock |-> TRUE],
       [Name |-> "Wireless Mouse", InStock |-> TRUE],
       [Name |-> "Coffee Mug",     InStock |-> FALSE],
       [Name |-> "Desk Chair",     InStock |-> TRUE],
       [Name |-> "Smartphone",     InStock |-> TRUE] >>

CreateProductRequests == { [Name |-> "Temp Product", InStock |-> TRUE] }

\* a nil pointer field is <<>>, a set one <<value>>
UpdateProductRequests ==
    { [Name |-> <<"Updated Laptop">>, InStock |-> <<>>],
      [Name |-> <<>>,                 InStock |-> <<FALSE>>] }

\* the sentinel error of package db
ErrNotFound == [var |-> "ErrNotFound", text |-> "product not found"]

\* errors.New(text): a new error value, held by no variable
errorsNew(text) == [var |-> "", text |-> text]

\* errors.Is(e, target) for errors that wrap nothing
errorsIs(e, target) == e = target

\* product := &models.Product{ID: db.nextID, ...}
NewProduct(nextID, req) == [ID |-> nextID, Name |-> req.Name, InStock |-> req.InStock]

\* db.products[db.nextID] = product; db.nextID++
Stored(store, product) ==
    [store EXCEPT !.products = (store.nextID :> product) @@ @,
                  !.nextID = @ + 1,
                  !.issued = Append(@, product.ID)]

\* the fields of the request that are set replace the product's
Updated(product, req) ==
    [product EXCEPT !.Name = IF req.Name # <<>> THEN req.Name[1] ELSE @,
                    !.InStock = IF req.InStock # <<>> THEN req.InStock[1] ELSE @]

\* delete(db.products, id)
Deleted(products, id) == [i \in DOMAIN products \ {id} |-> products[i]]

\* CreateProduct applied to each request in turn, as the constructor does
RECURSIVE CreateAll(_, _)
CreateAll(store, reqs) ==
    IF reqs = <<>> THEN store
    ELSE CreateAll(Stored(store, NewProduct(store.nextID, Head(reqs))), Tail(reqs))

NewInMemoryDB ==
    /\ ~db.made
    /\ db' = [db EXCEPT !.made = TRUE, !.store = CreateAll(EmptyStore, sampleProducts)]
    /\ UNCHANGED rlVars

\* a mutex that excludes nobody
DbCanLockAlways == TRUE

\* db.mutex.Lock() can return
DbCanLock == db.writers = {} /\ db.readers = {}

\* db.mutex.RLock() can return
DbCanRLock == db.writers = {} /\ \A g \in DbCallers : db.call[g].pc # "Lock"

\* a call of the InMemoryDB starts and waits for the mutex
DbCall(g, op, id, req) ==
    /\ db.made
    /\ db.call[g].pc = "idle"
    /\ db' = [db EXCEPT !.call[g] = [IdleDbCall EXCEPT
                                       !.pc = IF op = "GetProductByID" THEN "RLock" ELSE "Lock",
                                       !.op = op, !.id = id, !.req = req]]
    /\ UNCHANGED rlVars

CreateProductCall(g, req) ==
    /\ Len(db.store.issued) < Len(sampleProducts) + MaxCreated
    /\ DbCall(g, "CreateProduct", 0, req)

UpdateProductCall(g, id, req) == DbCall(g, "UpdateProduct", id, req)

DeleteProductCall(g, id) == DbCall(g, "DeleteProduct", id, <<>>)

GetProductByIDCall(g, id) == DbCall(g, "GetProductByID", id, <<>>)

\* db.mutex.Lock(); CreateProduct goes on to build its product with
\* ID: db.nextID
DbLock(g) ==
    /\ db.call[g].pc = "Lock"
    /\ DbCanLock
    /\ db' = [db EXCEPT
                !.writers = @ \cup {g},
                !.call[g].pc = "locked",
                !.call[g].product = IF db.call[g].op = "CreateProduct"
                                    THEN <<NewProduct(db.store.nextID, db.call[g].req)>>
                                    ELSE <<>>]
    /\ UNCHANGED rlVars

\* db.mutex.RLock()
DbRLock(g) ==
    /\ db.call[g].pc = "RLock"
    /\ DbCanRLock
    /\ db' = [db EXCEPT !.readers = @ \cup {g}, !.call[g].pc = "rlocked"]
    /\ UNCHANGED rlVars

\* the product is stored, a copy returned, the mutex unlocked
CreateProductReturn(g) ==
    /\ db.call[g].pc = "locked" /\ db.call[g].op = "CreateProduct"
    /\ db' = [db EXCEPT
                !.store = Stored(@, db.call[g].product[1]),
                !.writers = @ \ {g},
                !.call[g].pc = "idle", !.call[g].req = <<>>,
                !.call[g].err = NilError]
    /\ UNCHANGED rlVars

\* the error of a call on an id that is not stored
NotFound == errorsNew("product not found")

UpdateProductReturn(g) ==
    /\ db.call[g].pc = "locked" /\ db.call[g].op = "UpdateProduct"
    /\ LET id == db.call[g].id
       IN  IF id \notin DOMAIN db.store.products
           THEN db' = [db EXCEPT !.writers = @ \ {g},
                                 !.call[g].pc = "idle", !.call[g].req = <<>>,
                                 !.call[g].err = NotFound]
           ELSE db' = [db EXCEPT
                         !.store.products[id] = Updated(@, db.call[g].req),
                         !.writers = @ \ {g},
                         !.call[g].pc = "idle", !.call[g].req = <<>>,
                         !.call[g].product = <<Updated(db.store.products[id], db.call[g].req)>>,
                         !.call[g].err = NilError]
    /\ UNCHANGED rlVars

DeleteProductReturn(g) ==
    /\ db.call[g].pc = "locked" /\ db.call[g].op = "DeleteProduct"
    /\ LET id == db.call[g].id
       IN  IF id \notin DOMAIN db.store.products
           THEN db' = [db EXCEPT !.writers = @ \ {g},
                                 !.call[g].pc = "idle", !.call[g].req = <<>>,
                                 !.call[g].err = NotFound]
           ELSE db' = [db EXCEPT
                         !.store.products = Deleted(@, id),
                         !.writers = @ \ {g},
                         !.call[g].pc = "idle", !.call[g].req = <<>>,
                         !.call[g].err = NilError,
                         !.deleted = @ \cup {id}]
    /\ UNCHANGED rlVars

GetProductByIDReturn(g) ==
    /\ db.call[g].pc = "rlocked" /\ db.call[g].op = "GetProductByID"
    /\ LET id == db.call[g].id
       IN  IF id \notin DOMAIN db.store.products
           THEN db' = [db EXCEPT !.readers = @ \ {g},
                                 !.call[g].pc = "idle", !.call[g].req = <<>>,
                                 !.call[g].err = NotFound]
           ELSE db' = [db EXCEPT
                         !.readers = @ \ {g},
                         !.call[g].pc = "idle", !.call[g].req = <<>>,
                         !.call[g].product = <<db.store.products[id]>>,
                         !.call[g].err = NilError]
    /\ UNCHANGED rlVars

NextDb ==
    \/ NewInMemoryDB
    \/ \E g \in DbCallers, req \in CreateProductRequests : CreateProductCall(g, req)
    \/ \E g \in DbCallers, id \in DbIds, req \in UpdateProductRequests : UpdateProductCall(g, id, req)
    \/ \E g \in DbCallers, id \in DbIds : DeleteProductCall(g, id)
    \/ \E g \in DbCallers, id \in DbIds : GetProductByIDCall(g, id)
    \/ \E g \in DbCallers : DbLock(g)
    \/ \E g \in DbCallers : DbRLock(g)
    \/ \E g \in DbCallers : CreateProductReturn(g)
    \/ \E g \in DbCallers : UpdateProductReturn(g)
    \/ \E g \in DbCallers : DeleteProductReturn(g)
    \/ \E g \in DbCallers : GetProductByIDReturn(g)

\* the InMemoryDB is used on its own, no request reaches the limiter
InitDb == Start({[callers |-> {}, addrs |-> {}, until |-> 0, track |-> FALSE]})

SpecDb == InitDb /\ [][NextDb]_vars

\* ------------------------------------------------------------------ Next

Next ==
    \/ \E cfg \in Configs : New(cfg)
    \/ \E p \in load.callers, addr \in load.addrs : AllowCall(p, addr)
    \/ \E p \in load.callers : AllowLock(p)
    \/ \E p \in load.callers : AllowReturn(p)
    \/ \E p \in load.callers : NumberOfClientsCall(p)
    \/ \E p \in load.callers : NumberOfClientsRLock(p)
    \/ \E p \in load.callers : NumberOfClientsReturn(p)
    \/ Tick
    \/ Cancel
    \/ \E l \in Loops : LoopExit(l)
    \/ \E l \in Loops : LoopRecv(l)
    \/ \E l \in Loops : LoopLock(l)
    \/ ResetPass
    \/ CleanupPass

Spec == Init /\ [][Next]_vars

\* The goroutines that are runnable run: a loop at its select takes a ready
\* case, a pass and a call holding the lock finish, and a goroutine waiting
\* for the lock gets it once the lock stays free for it (a waiting writer
\* keeps new readers out, and only boundedly many writers come).
Fairness ==
    /\ \A l \in Loops : WF_vars(LoopExit(l)) /\ WF_vars(LoopRecv(l)) /\ WF_vars(LoopLock(l))
    /\ WF_vars(ResetPass) /\ WF_vars(CleanupPass)
    /\ \A p \in Callers : WF_vars(AllowLock(p)) /\ WF_vars(AllowReturn(p))
    /\ \A p \in Callers : WF_vars(NumberOfClientsRLock(p)) /\ WF_vars(NumberOfClientsReturn(p))

InitLive == Start(LiveWorkloads)

SpecLive == InitLive /\ [][Next]_vars /\ Fairness

\* the limiter made by api.NewRateLimiter handles requests
NextApi ==
    \/ \E n \in ApiLimits : NewRateLimiter(n)
    \/ \E p \in load.callers, addr \in load.addrs : NoopAllow(p, addr)
    \/ \E p \in load.callers, addr \in load.addrs : AllowCall(p, addr)
    \/ \E p \in load.callers : AllowLock(p)
    \/ \E p \in load.callers : AllowReturn(p)

SpecApi == Init /\ [][NextApi]_vars

\* requests from addresses of every shape, within one limit interval
InitAddr == Start(AddrWorkloads)

NextAddr ==
    \/ \E cfg \in Configs : New(cfg)
    \/ \E p \in load.callers, addr \in load.addrs : AllowCall(p, addr)
    \/ \E p \in load.callers : AllowLock(p)
    \/ \E p \in load.callers : AllowReturn(p)

SpecAddr == InitAddr /\ [][NextAddr]_vars

\* one client's requests, with the admissions of each second counted
InitBurst == Start(BurstWorkloads)

SpecBurst == InitBurst /\ [][Next]_vars

\* ---------------------------------------------------------------- claims

LimitInterval == ticker["reset"].dur
ClientTimeout == ticker["cleanup"].dur

\* p's Allow writes the record back and returns in this step
AllowReturns(p) == call[p].pc = "locked" /\ call'[p].pc = "idle"

\* C1: counting a client's Allow calls from the last time its count was
\* zero (limiter built, reset pass or eviction), with no reset pass and no
\* eviction in between, calls 1..Limit return true and call Limit+1 false.
C1_FirstLimitAdmitted ==
    \A c \in ClientIDs :
        /\ hist.calls[c] \in 1..limit => LastAdmitted(c)
        /\ hist.calls[c] = limit + 1 => LastDenied(c)

C1_Witness ==
    \E c \in ClientIDs : built /\ hist.calls[c] = limit + 1 /\ LastDenied(c)

\* C2 as claimed: the Allow calls that returned true for a client since the
\* most recent reset pass are at most Limit.
C2_AdmittedSinceReset ==
    \A c \in ClientIDs : hist.admitted[c] <= limit

\* C2: the Allow calls that returned true for a client since the most recent
\* reset pass or eviction of its record are at most Limit.
C2_AdmittedSinceResetOrEviction ==
    \A c \in ClientIDs : hist.admittedE[c] <= limit

C2_Witness ==
    \E c \in ClientIDs :
        /\ built /\ hist.admittedE[c] = limit /\ hist.deniedE[c]
        /\ hist.admitted[c] > limit

\* the count after the increment decides, and denied calls are counted too
CountedAndDecided(p) ==
    LET c == call[p].id
        before == IF c \in DOMAIN activity THEN activity[c].requestCount ELSE 0
    IN  /\ activity'[c].requestCount = before + 1
        /\ hist'.lastRet[c] = IF before + 1 <= limit THEN "true" ELSE "false"

\* C3 as claimed: Allow returns true iff the count after its increment is
\* <= Limit, denied calls increment too, and after a false for a client
\* every Allow for it returns false until the next reset pass.
C3_DeniedUntilReset ==
    [][\A p \in Callers : AllowReturns(p) =>
          /\ CountedAndDecided(p)
          /\ hist.denied[call[p].id] => hist'.lastRet[call[p].id] = "false"]_vars

\* C3: the same, until the next reset pass or the eviction of the client's
\* record.
C3_DeniedUntilResetOrEviction ==
    [][\A p \in Callers : AllowReturns(p) =>
          /\ CountedAndDecided(p)
          /\ hist.deniedE[call[p].id] => hist'.lastRet[call[p].id] = "false"]_vars

C3_Witness ==
    \E c \in ClientIDs :
        /\ c \in DOMAIN activity /\ activity[c].requestCount = limit + 2
        /\ hist.deniedE[c] /\ LastDenied(c)

LongIdle == {c \in ClientIDs : hist.lastAllow[c] >= 0 /\ now - hist.lastAllow[c] >= 2 * ClientTimeout}

\* the store holds none of the long idle clients, and NumberOfClients()
\* is 0 when no other client called Allow
LongIdleGone ==
    /\ LongIdle \cap DOMAIN activity = {}
    /\ (\A c \in ClientIDs : hist.lastAllow[c] >= 0 => c \in LongIdle) => NumberOfClients = 0

CleanupHandled ==
    /\ loop["cleanup"].pc = "select"
    /\ ticker["cleanup"].C = <<>>
    /\ hist.cleaned = hist.ticked

C6_EvictedOnlyWhenIdle ==
    [][\A c \in DOMAIN activity \ DOMAIN activity' :
          /\ loop["cleanup"].pc = "locked"
          /\ loop["cleanup"].now - hist.lastAllow[c] >= ClientTimeout]_vars

\* a cleanup pass has kept a denied client that called within the window
C6_Witness ==
    \E c \in DOMAIN activity :
        /\ hist.cleaned >= ClientTimeout /\ loop["cleanup"].pc = "select"
        /\ hist.lastAllow[c] <= hist.cleaned
        /\ hist.cleaned - hist.lastAllow[c] < ClientTimeout
        /\ LastDenied(c)

\* no record's lastSeen lies ClientTimeout or more before time t
NoneStaleAt(t) == \A c \in DOMAIN activity : t - activity[c].lastSeen < ClientTimeout

Min(a, b) == IF a <= b THEN a ELSE b

\* C8: the stored count of a client is the number of its Allow calls since
\* the count was last zero, and min(that number, Limit) of them returned
\* true, also when the calls overlapped.
C8_NoLostUpdate ==
    \A c \in ClientIDs :
        /\ c \in DOMAIN activity => activity[c].requestCount = hist.calls[c]
        /\ hist.admittedE[c] = Min(hist.calls[c], limit)

C8_Witness ==
    \E c \in DOMAIN activity :
        /\ hist.raced[c] /\ activity[c].requestCount = limit + 1
        /\ \A p \in Callers : call[p].pc = "idle"

\* the rules of New, in the order of the claim
FirstViolated(cfg) ==
    IF ~(cfg.Limit > 0) THEN ErrInvalidLimit
    ELSE IF ~(cfg.LimitInterval >= Second) THEN ErrInvalidLimitInterval
    ELSE IF ~(cfg.ClientTimeout > cfg.LimitInterval) THEN ErrInvalidClientTimeout
    ELSE "nil"

\* C9: New returns the error of the first rule violated, in the order
\* Limit, LimitInterval, ClientTimeout; the three errors differ; New
\* succeeds iff all three rules hold.
C9_FirstRuleViolated ==
    /\ Cardinality({ErrInvalidLimit, ErrInvalidLimitInterval, ErrInvalidClientTimeout, "nil"}) = 4
    /\ hist.cfg # <<>> =>
          LET cfg == hist.cfg[1]
          IN  /\ err = FirstViolated(cfg)
              /\ built <=> /\ cfg.Limit > 0
                           /\ cfg.LimitInterval >= Second
                           /\ cfg.ClientTimeout > cfg.LimitInterval

\* New was given a configuration that breaks the first two rules
C9_Witness ==
    /\ hist.cfg # <<>>
    /\ hist.cfg[1].Limit <= 0 /\ hist.cfg[1].LimitInterval < Second
    /\ err = ErrInvalidLimit /\ ~built

\* C10: after the cancellation both loops exit in the end, each with its
\* ticker stopped.
C10_LoopsExit ==
    cancelled ~> \A l \in Loops : loop[l].pc = "exited" /\ ticker[l].stopped

C10_Witness ==
    cancelled /\ \A l \in Loops : loop[l].pc = "exited" /\ ticker[l].stopped

\* loop l finishes a pass in this step
PassBy(l) == loop[l].pc = "locked" /\ loop'[l].pc = "select"

\* C11 as claimed: once the scope is cancelled a loop at its select does not
\* take the tick, and no pass modifies the store.
C11_NoPassAfterCancel ==
    [][cancelled => \A l \in Loops :
          /\ loop[l].pc = "select" => loop'[l].pc # "Lock"
          /\ PassBy(l) => activity' = activity]_vars

\* C11: once a loop has observed the cancellation (its ticker is stopped) it
\* has exited for good: it receives no tick and runs no pass any more, also
\* when a tick is left pending in its ticker's channel.
C11_NoPassOnceExited ==
    [][\A l \in Loops : cancelled /\ ticker[l].stopped =>
          /\ loop[l].pc = "exited" /\ loop'[l].pc = "exited"
          /\ ~PassBy(l)
          /\ ticker'[l] = ticker[l]]_vars

\* a loop has exited with a tick left pending, over a store a pass would change
C11_Witness ==
    /\ cancelled
    /\ \E c \in DOMAIN activity : activity[c].requestCount > 0
    /\ \E l \in Loops : loop[l].pc = "exited" /\ ticker[l].C # <<>>

\* the lock is held only by goroutines inside their critical section: none
\* holds it while waiting at a select for a tick or the cancellation, or
\* while waiting for the lock; a writer holds it alone
LockHeldInside ==
    /\ \A p \in Callers : /\ p \in writers <=> call[p].pc = "locked"
                          /\ p \in readers <=> call[p].pc = "rlocked"
    /\ \A l \in Loops : l \in writers <=> loop[l].pc = "locked"
    /\ Cardinality(writers) <= 1
    /\ writers # {} => readers = {}

\* C12: the lock is held only inside a critical section, and every Allow
\* and NumberOfClients call that starts returns in the end.
C12_CallsReturn ==
    /\ []LockHeldInside
    /\ \A p \in Callers : (call[p].pc # "idle") ~> (call[p].pc = "idle")

\* a caller holds the lock while the other caller and both loops wait for it
C12_Witness ==
    \E p \in Callers, q \in Callers :
        /\ call[p].pc = "locked" /\ call[q].pc = "RLock"
        /\ \A l \in Loops : loop[l].pc = "Lock"
        /\ ~cancelled
\* C13: whatever the request and however many calls came before, the
\* NoopLimiter's Allow returns true, and the NoopLimiter keeps no state:
\* no store, no count, no lock.
C13_NoopAlwaysAdmits ==
    api.limiter = "noop" =>
        /\ api.rets \subseteq {TRUE}
        /\ ~built /\ activity = NoActivity /\ writers = {} /\ readers = {}

C13_Witness ==
    api.limiter = "noop" /\ api.calls = MaxNoopCalls /\ api.rets = {TRUE}

\* C14: NewRateLimiter returns no error for any limit; the NoopLimiter iff
\* limit <= 0, otherwise a limiter with Limit = limit, LimitInterval one
\* second and ClientTimeout one minute, which New's validation accepts.
C14_NewRateLimiterSucceeds ==
    api.limit # <<>> =>
        LET n == api.limit[1]
        IN  /\ api.err = "nil"
            /\ api.limiter = "noop" <=> n <= 0
            /\ api.limiter = "real" <=> n > 0
            /\ n <= 0 => ~built
            /\ n > 0 => /\ built /\ limit = n
                        /\ LimitInterval = Second /\ ClientTimeout = 60 * Second
                        /\ hist.cfg = <<[Limit |-> n, LimitInterval |-> Second,
                                         ClientTimeout |-> 60 * Second]>>
                        /\ FirstViolated(hist.cfg[1]) = "nil"

\* a limiter made for limit 2 has admitted two requests and denied the third
C14_Witness ==
    /\ api.limiter = "real" /\ api.limit = <<2>>
    /\ \E c \in DOMAIN activity : activity[c].requestCount = 3 /\ LastDenied(c)
\* the address ends in ':' and 1 to 5 decimal digits
EndsInPort(addr) ==
    \E n \in 1..5 :
        /\ Len(addr) >= n + 1
        /\ addr[Len(addr) - n] = ":"
        /\ \A i \in (Len(addr) - n + 1)..Len(addr) : addr[i] \in Digits

\* the calls counted for the empty client all came from addresses without port
OnlyUnresolved == \A a \in hist.mix[<<>>] : ~EndsInPort(a)

\* C15: a request whose address does not end in ':' and 1 to 5 digits is
\* counted under the empty client id, and of such requests, from whatever
\* mix of addresses, the first Limit are admitted and the next is denied.
C15_UnresolvedShareOneClient ==
    /\ \A p \in Callers : call[p].pc = "locked" /\ ~EndsInPort(call[p].rq) => call[p].id = <<>>
    /\ OnlyUnresolved =>
          /\ hist.calls[<<>>] \in 1..limit => LastAdmitted(<<>>)
          /\ hist.calls[<<>>] = limit + 1 => LastDenied(<<>>) /\ hist.admittedE[<<>>] = limit

\* Limit + 1 requests from three different unresolvable addresses
C15_Witness ==
    /\ OnlyUnresolved /\ Cardinality(hist.mix[<<>>]) >= 3
    /\ hist.calls[<<>>] = limit + 2 /\ hist.admittedE[<<>>] = limit /\ LastDenied(<<>>)

\* the address is A:P, P being 1 to 5 decimal digits after the final ':'
LastColon(addr) == CHOOSE k \in 0..Len(addr) :
                      /\ k > 0 => addr[k] = ":"
                      /\ \A j \in (k + 1)..Len(addr) : addr[j] # ":"
PortPart(addr) == SubSeq(addr, LastColon(addr) + 1, Len(addr))
AddrPart(addr) == SubSeq(addr, 1, LastColon(addr) - 1)
IsAddrPort(addr) ==
    /\ LastColon(addr) > 0
    /\ Len(PortPart(addr)) \in 1..5
    /\ \A i \in 1..Len(PortPart(addr)) : PortPart(addr)[i] \in Digits

NoLineBreak(a) == \A i \in 1..Len(a) : a[i] # "\n"

\* C16 as claimed: a request from A:P is counted under A, so the requests
\* sharing a counter are those with the same address part.
C16_CountedUnderAddress ==
    /\ \A p \in Callers : call[p].pc = "locked" /\ IsAddrPort(call[p].rq) =>
          call[p].id = AddrPart(call[p].rq)
    /\ \A c \in ClientIDs : \A a \in hist.mix[c] : IsAddrPort(a) => AddrPart(a) = c

\* C16: the same, for the addresses A:P whose A holds no line break.
C16_CountedUnderAddressOneLine ==
    /\ \A p \in Callers :
          /\ call[p].pc = "locked"
          /\ IsAddrPort(call[p].rq) /\ NoLineBreak(AddrPart(call[p].rq))
          => call[p].id = AddrPart(call[p].rq)
    /\ \A c \in ClientIDs : \A a \in hist.mix[c] :
          IsAddrPort(a) /\ NoLineBreak(AddrPart(a)) => AddrPart(a) = c

\* three ports of address a share one counter, a:1 has its own
C16_Witness ==
    /\ <<"a">> \in DOMAIN activity /\ activity[<<"a">>].requestCount = 3
    /\ Cardinality(hist.mix[<<"a">>]) = 3
    /\ <<"a", ":", "1">> \in DOMAIN activity /\ activity[<<"a", ":", "1">>].requestCount = 1
\* g's call of the InMemoryDB returns in this step
DbReturns(g) == db.call[g].pc \in {"locked", "rlocked"} /\ db'.call[g].pc = "idle"

\* C17: DeleteProduct, UpdateProduct and GetProductByID on an id that is
\* not stored return ErrNotFound and leave the products as they are; a
\* DeleteProduct of an id deleted before fails.
C17_NotFoundIsErrNotFound ==
    [][\A g \in DbCallers :
          /\ DbReturns(g)
          /\ db.call[g].op \in {"DeleteProduct", "UpdateProduct", "GetProductByID"}
          /\ db.call[g].id \notin DOMAIN db.store.products
          => /\ errorsIs(db'.call[g].err, ErrNotFound)
             /\ db'.store.products = db.store.products
             /\ db.call[g].id \in db.deleted => db'.call[g].err # NilError]_vars

StrictlyIncreasing(seq) == \A i \in 1..Len(seq) : \A j \in 1..Len(seq) : i < j => seq[i] < seq[j]

\* C18: the ids CreateProduct gives out start at 1, each is greater than all
\* given out before, also after deletes and with concurrent calls, and
\* nextID is 1 plus the number of products ever created.
C18_IdsIncrease ==
    db.made =>
        /\ db.store.issued # <<>> /\ db.store.issued[1] = 1
        /\ StrictlyIncreasing(db.store.issued)
        /\ db.store.nextID = 1 + Len(db.store.issued)
        /\ \A i \in DOMAIN db.store.products : db.store.products[i].ID = i

\* products were created by both goroutines after a delete of the newest
C18_Witness ==
    /\ Len(db.store.issued) = Len(sampleProducts) + MaxCreated + 1
    /\ 6 \in db.deleted
    /\ \A g \in DbCallers : db.call[g].pc = "idle" /\ db.call[g].op = "CreateProduct"
\* C19: an Allow for client c, admitted or denied, leaves c's record at the
\* count before the call (0 when c had no record) plus one, with lastSeen
\* the clock's time.
C19_AllowCountsAndStamps ==
    [][\A p \in Callers : AllowReturns(p) =>
          LET c == call[p].id
              before == IF c \in DOMAIN activity THEN activity[c].requestCount ELSE 0
          IN  /\ c \in DOMAIN activity'
              /\ activity'[c] = [requestCount |-> before + 1, lastSeen |-> now]]_vars

\* a denied call has stamped the record at a later time than its creation
C19_Witness ==
    \E c \in DOMAIN activity :
        /\ LastDenied(c) /\ hist.lastAllow[c] = now /\ now > 0
        /\ activity[c] = [requestCount |-> limit + 1, lastSeen |-> now]
        /\ \A p \in Callers : call[p].pc = "idle"

\* C20: a reset pass leaves the same clients in the store, each with count
\* 0 and the lastSeen it had.
C20_ResetKeepsLastSeen ==
    [][PassBy("reset") =>
          /\ DOMAIN activity' = DOMAIN activity
          /\ \A c \in DOMAIN activity :
                /\ activity'[c].requestCount = 0
                /\ activity'[c].lastSeen = activity[c].lastSeen]_vars

\* two clients that were seen at different times stand at count 0
C20_Witness ==
    /\ Cardinality(DOMAIN activity) = 2
    /\ \A c \in DOMAIN activity : activity[c].requestCount = 0 /\ activity[c].lastSeen > 0
    /\ \E c \in DOMAIN activity, e \in DOMAIN activity : activity[c].lastSeen # activity[e].lastSeen
    /\ loop["reset"].pc = "select"

\* C21: a cleanup pass for a tick at time T deletes exactly the records
\* with T - lastSeen >= ClientTimeout, those with T - lastSeen =
\* ClientTimeout among them, and leaves every other record as it was.
C21_CleanupDeletesExactlyStale ==
    [][PassBy("cleanup") =>
          LET T == loop["cleanup"].now
          IN  /\ \A c \in DOMAIN activity :
                    c \notin DOMAIN activity' <=> T - activity[c].lastSeen >= ClientTimeout
              /\ DOMAIN activity' \subseteq DOMAIN activity
              /\ \A c \in DOMAIN activity' : activity'[c] = activity[c]]_vars

\* a pass has deleted a client seen exactly ClientTimeout before its tick and
\* kept, with its count, a client seen later
C21_Witness ==
    /\ hist.cleaned >= ClientTimeout /\ loop["cleanup"].pc = "select"
    /\ \E c \in ClientIDs :
          /\ c \notin DOMAIN activity /\ hist.lastRet[c] = "none"
          /\ hist.lastAllow[c] >= 0 /\ hist.cleaned - hist.lastAllow[c] = ClientTimeout
    /\ \E e \in DOMAIN activity :
          /\ activity[e].requestCount > 0
          /\ activity[e].lastSeen < hist.cleaned

\* loop l has not been started and its ticker has not been created
NotStarted(l) == loop[l].pc = "none" /\ ticker[l].stopped /\ ticker[l].dur = 0 /\ ticker[l].C = <<>>

\* C22: when New rejects a configuration it returns no limiter, and neither
\* loop is started nor a ticker created; a loop or a ticker exists only
\* after a New whose configuration passed all three rules.
C22_RejectedStartsNothing ==
    /\ hist.cfg # <<>> /\ FirstViolated(hist.cfg[1]) # "nil" =>
          /\ err # "nil" /\ ~built
          /\ \A l \in Loops : NotStarted(l)
    /\ (\E l \in Loops : ~NotStarted(l)) =>
          /\ built /\ err = "nil" /\ hist.cfg # <<>>
          /\ hist.cfg[1].Limit > 0
          /\ hist.cfg[1].LimitInterval >= Second
          /\ hist.cfg[1].ClientTimeout > hist.cfg[1].LimitInterval

\* New was given a configuration that breaks the last rule only
C22_Witness ==
    /\ hist.cfg # <<>>
    /\ hist.cfg[1].Limit > 0 /\ hist.cfg[1].LimitInterval >= Second
    /\ hist.cfg[1].ClientTimeout <= hist.cfg[1].LimitInterval
    /\ err = ErrInvalidClientTimeout /\ ~built
    /\ \A l \in Loops : NotStarted(l)

\* the clients that have completed an Allow and have not been evicted since
Tracked == {c \in ClientIDs : hist.lastRet[c] # "none"}

\* p's NumberOfClients returns in this step
NumberOfClientsReturns(p) == call[p].pc = "rlocked" /\ call'[p].pc = "idle"

\* C23: NumberOfClients returns the number of records in the store, which
\* is the number of distinct client ids that have called Allow and have not
\* been evicted since, and no step of it changes a record.
C23_CountsTrackedClients ==
    [][\A p \in Callers :
          /\ NumberOfClientsReturns(p) =>
                /\ call[p].n = Cardinality(DOMAIN activity)
                /\ call[p].n = Cardinality(Tracked)
          /\ call[p].pc \in {"RLock", "rlocked"} /\ call'[p] # call[p] => activity' = activity]_vars

\* NumberOfClients is about to return 1: of two clients one has been evicted
C23_Witness ==
    \E p \in Callers :
        /\ call[p].pc = "rlocked" /\ call[p].n = 1
        /\ \E c \in ClientIDs : hist.lastAllow[c] >= 0 /\ c \notin Tracked
        /\ \E c \in DOMAIN activity : activity[c].requestCount = 0

\* no Allow has completed
NoAllowYet == \A c \in ClientIDs : hist.lastAllow[c] = -1

\* loop l runs: it waits at its select, or for the lock, or makes its pass
Running(l) == loop[l].pc \in {"select", "Lock", "locked"} /\ ~ticker[l].stopped

\* C24: the limiter a successful New returns has an empty store, so
\* NumberOfClients returns 0 before any Allow, and both loops run, with
\* tickers of LimitInterval and ClientTimeout, until the scope is cancelled.
C24_BuiltEmptyAndRunning ==
    built =>
        /\ NoAllowYet =>
              /\ activity = NoActivity
              /\ \A p \in Callers : call[p].pc = "rlocked" => call[p].n = 0
        /\ ticker["reset"].dur = hist.cfg[1].LimitInterval
        /\ ticker["cleanup"].dur = hist.cfg[1].ClientTimeout
        /\ \A l \in Loops :
              /\ ~cancelled => Running(l)
              /\ ~Running(l) => cancelled /\ loop[l].pc = "exited" /\ ticker[l].stopped

\* before any Allow both loops have received a tick, and a NumberOfClients
\* is about to return 0
C24_Witness ==
    /\ built /\ NoAllowYet /\ ~cancelled
    /\ \A l \in Loops : loop[l].pc = "Lock"
    /\ \E p \in Callers : call[p].pc = "rlocked" /\ call[p].n = 0

\* the records this step deletes
DeletedNow == DOMAIN activity \ DOMAIN activity'

\* C25 as claimed: every record a cleanup pass deletes has count 0 at the
\* moment of deletion.
C25_EvictedAtZero ==
    [][\A c \in DeletedNow : activity[c].requestCount = 0]_vars

\* C25: a record a cleanup pass deletes has count 0 exactly when a reset
\* pass has run since the record's last Allow.
C25_EvictedAtZeroIfReset ==
    [][\A c \in DeletedNow :
          activity[c].requestCount = 0 <=> hist.admitted[c] = 0 /\ ~hist.denied[c]]_vars

\* a cleanup pass holds the lock and is about to delete a record that a
\* reset pass has zeroed
C25_Witness ==
    /\ loop["cleanup"].pc = "locked"
    /\ \E c \in Expired(activity, loop["cleanup"].now, ClientTimeout) :
          activity[c].requestCount = 0 /\ hist.lastAllow[c] >= 0

\* C26 as claimed: in a time span shorter than LimitInterval (here: while
\* the clock shows one second) at most 2 x Limit Allow calls for one client
\* return true.
C26_TwiceLimitPerSpan ==
    \A c \in ClientIDs : hist.span[c] <= 2 * limit

\* C26: in such a span at most Limit calls return true, and Limit more for
\* each reset pass over the client's record and each eviction of it that
\* runs within the span.
C26_LimitPerPassInSpan ==
    \A c \in ClientIDs : hist.span[c] <= limit * (1 + hist.cuts[c])

\* within one second a client was admitted Limit times before a reset pass
\* and Limit times after it
C26_Witness ==
    \E c \in ClientIDs :
        /\ built /\ now > 0
        /\ hist.span[c] = 2 * limit /\ hist.cuts[c] = 1
        /\ hist.admitted[c] = limit /\ hist.deniedE[c]

\* the scope is cancelled and both loops have exited
Frozen == cancelled /\ \A l \in Loops : loop[l].pc = "exited"

\* C27: once the scope is cancelled and both loops have exited, Allow goes
\* on counting; no count is zeroed and no record deleted any more, so a
\* client whose count has reached Limit is denied on every later call and
\* NumberOfClients never decreases.
C27_FrozenStore ==
    [][Frozen =>
          /\ DOMAIN activity \subseteq DOMAIN activity'
          /\ \A c \in DOMAIN activity : activity'[c].requestCount >= activity[c].requestCount
          /\ \A p \in Callers : AllowReturns(p) =>
                LET c == call[p].id
                IN  /\ c \in DOMAIN activity'
                    /\ c \in DOMAIN activity /\ activity[c].requestCount >= limit =>
                          hist'.lastRet[c] = "false"
          /\ \A p \in Callers : NumberOfClientsReturns(p) => call[p].n = Cardinality(DOMAIN activity)]_vars

\* a client has been denied twice at a time after both loops had exited
C27_Witness ==
    /\ Frozen
    /\ \E c \in DOMAIN activity :
          /\ \A l \in Loops : activity[c].lastSeen >= ticker[l].next
          /\ activity[c].requestCount = limit + 2 /\ LastDenied(c)

\* C28: from the cleanup loop's Lock to the end of its pass no other
\* goroutine holds the lock and no Allow reads or writes the store, so the
\* scan and the deletions see one store; the first Allow for a client after
\* its eviction makes a new record with count 1 and returns true.
C28_CleanupUninterrupted ==
    [][/\ loop["cleanup"].pc = "locked" =>
             /\ writers = {"cleanup"} /\ readers = {}
             /\ \A p \in Callers : call[p].pc \notin {"locked", "rlocked"}
             /\ \A p \in Callers : call'[p].pc \in {"locked", "rlocked"} => PassBy("cleanup")
             /\ activity' # activity => PassBy("cleanup")
       /\ \A p \in Callers :
             /\ AllowReturns(p)
             /\ hist.lastAllow[call[p].id] >= 0 /\ hist.lastRet[call[p].id] = "none"
             => /\ activity'[call[p].id] = ClientActivity(1, now)
                /\ hist'.lastRet[call[p].id] = "true"]_vars

\* a client that was denied before its eviction has been admitted again
\* with no reset pass in between, and an Allow waits for the lock that the
\* cleanup loop holds for its next pass
C28_Witness ==
    \E c \in DOMAIN activity :
        /\ hist.cleaned >= ClientTimeout
        /\ activity[c] = ClientActivity(1, now) /\ LastAdmitted(c)
        /\ hist.denied[c] /\ ~hist.deniedE[c]
        /\ \E p \in Callers : call[p].pc = "Lock" /\ loop["cleanup"].pc = "locked"

\* the tick times a cleanup pass can be given
TickTimes == 0..(MaxTime + 1)

\* C29: from the same store and for the same tick, a reset pass followed by
\* a cleanup pass and a cleanup pass followed by a reset pass leave the
\* same store: checked at every reset pass for a cleanup of any tick time
\* before or after it, and at every cleanup pass for a reset before or
\* after it.
C29_PassesCommute ==
    [][/\ PassBy("reset") =>
             \A T \in TickTimes :
                 Cleanup(activity', T, ClientTimeout) = ResetAll(Cleanup(activity, T, ClientTimeout))
       /\ PassBy("cleanup") =>
             ResetAll(activity') = Cleanup(ResetAll(activity), loop["cleanup"].now, ClientTimeout)]_vars

\* both loops have received a tick and wait for the lock, over a store with
\* a stale record and a fresh one, both with requests counted
C29_Witness ==
    /\ \A l \in Loops : loop[l].pc = "Lock"
    /\ \E c \in Expired(activity, loop["cleanup"].now, ClientTimeout) :
          activity[c].requestCount > 0
    /\ \E c \in DOMAIN Cleanup(activity, loop["cleanup"].now, ClientTimeout) :
          activity[c].requestCount > 0

\* C30: an Allow for client c writes c's record and no other: every other
\* record keeps its count and lastSeen, and the call is denied only when
\* c's own count had reached Limit, whatever the counts of the others.
C30_AllowTouchesOnlyItsClient ==
    [][\A p \in Callers : AllowReturns(p) =>
          LET c == ClientID(call[p].rq)
          IN  /\ DOMAIN activity' = DOMAIN activity \cup {c}
              /\ \A e \in DOMAIN activity \ {c} : activity'[e] = activity[e]
              /\ hist'.lastRet[c] = "false" =>
                    c \in DOMAIN activity /\ activity[c].requestCount >= limit]_vars

\* one client stands denied, over its limit, and another was admitted at a
\* later time
C30_Witness ==
    \E c \in DOMAIN activity, e \in DOMAIN activity :
        /\ c # e
        /\ LastDenied(c) /\ activity[c].requestCount = limit + 1
        /\ activity[c].lastSeen = hist.lastAllow[c]
        /\ LastAdmitted(e) /\ activity[e].requestCount = 1
        /\ hist.lastAllow[e] > hist.lastAllow[c]
====
